---- MODULE Spec2Model ----
(***************************************************************************)
(* A model of czsc/analyze.py: the incremental K-line analyzer             *)
(* (KlineAnalyze), the pivot finder (find_zs) and the divergence test      *)
(* (is_bei_chi), and of the order path of QmtTradeManager in               *)
(* czsc/connectors/qmt_connector.py.                                       *)
(*                                                                         *)
(* A bar is a record [dt, open, high, low, close]; a fractal is            *)
(* [dt, fx_mark, fx, fx_high, fx_low]; a stroke carries "bi" and a segment *)
(* "xd" in place of "fx".  Marks are "g" (top) and "d" (bottom), as in the *)
(* source.  An uncaught exception ends the run: `raised` records where it  *)
(* was thrown and the sequences keep what the code had assigned so far.    *)
(***************************************************************************)
EXTENDS Integers, Sequences, FiniteSets, TLC

VARIABLES
    kline_raw,      \* self.kline_raw
    kline_new,      \* self.kline_new
    fx_list,        \* self.fx_list
    bi_list,        \* self.bi_list
    xd_list,        \* self.xd_list
    min_bi_k,       \* self.min_bi_k
    max_raw_len,    \* self.max_raw_len
    raised,         \* "" or the exception that ended the last call
    call,           \* the last call made and its argument
    feed,           \* the kind of bar stream the analyzer is fed from
    zs_points,      \* find_zs: the argument
    zs_out,         \* find_zs: the returned list of pivots
    bc_in,          \* is_bei_chi: the arguments
    bc_out,         \* is_bei_chi: the exception raised, if any, and the returned flag
    mg_in,          \* the merger's loop body: the merged series and the bar k
    mg_out,         \* the merger's loop body: the merged series it leaves
    symbol_max_pos, \* QmtTradeManager: self.symbol_max_pos, a ratio <<num, den>>
    traders,        \* QmtTradeManager: self.traders, symbol -> [end_dt, pos]
    account,        \* the broker's side: cash, total_asset, positions, open orders
    orders          \* the calls of xtt.order_stock, in the order they were made

vars == <<kline_raw, kline_new, fx_list, bi_list, xd_list, min_bi_k,
          max_raw_len, raised, call, feed, zs_points, zs_out, bc_in, bc_out,
          mg_in, mg_out, symbol_max_pos, traders, account, orders>>

qmtVars == <<symbol_max_pos, traders, account, orders>>

kaVars == <<kline_raw, kline_new, fx_list, bi_list, xd_list, min_bi_k,
            max_raw_len, raised, feed>>

----------------------------------------------------------------------------
(* Bounds of the model *)

MaxBars == 8          \* periods fed to an analyzer on the "ticks" feed
MaxWalk == 9          \* periods fed to an analyzer on the "walk" feed
MaxSwing == 30        \* periods fed to an analyzer on the "swing" feed
MaxStray == 5         \* raw bars held by an analyzer on the "stray" feed
MaxStairs == 6        \* periods fed to an analyzer on the "stairs" feed
MaxJumps == 8         \* periods fed to an analyzer on the "jumps" feed
MaxDips == 6          \* periods fed to an analyzer on the "dips" feed
InitLen == 4          \* length of the list given to the constructor
MaxPoints == 6        \* length of the list given to find_zs
MaxRounds == 1        \* bars that each trader of the trade manager is given

----------------------------------------------------------------------------
(* Python list idioms *)

Max2(a, b) == IF a >= b THEN a ELSE b
Min2(a, b) == IF a <= b THEN a ELSE b

\* seq[:-n] for n > 0
DropLast(s, n) == IF Len(s) <= n THEN << >> ELSE SubSeq(s, 1, Len(s) - n)

\* seq[-n:]; for n = 0 Python reads seq[-0:] as seq[0:], the whole list
LastN(s, n) == IF n = 0 \/ Len(s) <= n THEN s ELSE SubSeq(s, Len(s) - n + 1, Len(s))

\* seq[:n]
FirstN(s, n) == IF Len(s) <= n THEN s ELSE SubSeq(s, 1, n)

----------------------------------------------------------------------------
(* Look-back windows of the updaters *)

RawWindow == 100      \* kline_raw[-100:] in _update_kline_new
KnWindow == 100       \* kline_new[-100:] in _update_fx_list
FxWindow == 100       \* fx_list[-100:] in _update_bi_list
BiKnWindow == 500     \* kline_new[-500:] in _update_bi_list
BiWindow == 200       \* bi_list[-200:] in _update_xd_list
SeedLen == 4          \* kline_raw[:4], the seed of kline_new

----------------------------------------------------------------------------
(* _update_kline_new: the containment merger *)

\* a variant of the test that looks at the highs only
ContainedByHigh(cur_h, cur_l, last_h, last_l) == cur_h >= last_h

\* the test of line 238: one of the two bars covers the other
Contained(cur_h, cur_l, last_h, last_l) ==
    \/ (cur_h <= last_h /\ cur_l >= last_l)
    \/ (cur_h >= last_h /\ cur_l <= last_l)

\* a variant of the loop body that merges as in an up move whatever the
\* direction
MergeStepUp(kn, k) ==
    LET n == Len(kn)
        last_kn == kn[n]
    IN  IF Contained(k.high, k.low, last_kn.high, last_kn.low)
        THEN LET last_h == Max2(last_kn.high, k.high)
                 last_l == Max2(last_kn.low, k.low)
                 merged == [dt |-> k.dt, high |-> last_h, low |-> last_l,
                            open  |-> IF k.open >= k.close THEN last_h ELSE last_l,
                            close |-> IF k.open >= k.close THEN last_l ELSE last_h]
             IN  Append(SubSeq(kn, 1, n - 1), merged)
        ELSE Append(kn, k)

\* one pass of the loop body (lines 228-256); kn has at least two bars
MergeStep(kn, k) ==
    LET n == Len(kn)
        last_kn == kn[n]
        direction == IF kn[n].high > kn[n - 1].high THEN "up" ELSE "down"
    IN  IF Contained(k.high, k.low, last_kn.high, last_kn.low)
        THEN LET last_h == IF direction = "up" THEN Max2(last_kn.high, k.high)
                                               ELSE Min2(last_kn.high, k.high)
                 last_l == IF direction = "up" THEN Max2(last_kn.low, k.low)
                                               ELSE Min2(last_kn.low, k.low)
                 merged == [dt |-> k.dt, high |-> last_h, low |-> last_l,
                            open  |-> IF k.open >= k.close THEN last_h ELSE last_l,
                            close |-> IF k.open >= k.close THEN last_l ELSE last_h]
             IN  Append(SubSeq(kn, 1, n - 1), merged)
        ELSE Append(kn, k)

\* the loop of lines 227-256; kline_new[-2] of a one-bar list is an IndexError
RECURSIVE MergeLoop(_, _, _)
MergeLoop(kn, right_k, i) ==
    IF i > Len(right_k) THEN [kn |-> kn, exc |-> ""]
    ELSE IF Len(kn) < 2 THEN [kn |-> kn, exc |-> "IndexError"]
    ELSE MergeLoop(MergeStep(kn, right_k[i]), right_k, i + 1)

\* lines 213-215: an empty list is seeded with the first four raw bars
KnSeeded(raw, kn0) == IF Len(kn0) = 0 THEN FirstN(raw, SeedLen) ELSE kn0

\* lines 219-222: the raw bars after the last merged bar
KnRightK(raw, kn) ==
    LET After(x) == x.dt > kn[Len(kn)].dt
    IN  IF Len(kn) <= 4 THEN SelectSeq(raw, After)
        ELSE SelectSeq(LastN(raw, RawWindow), After)

\* lines 219-256 on the seeded list without its last two bars
KnFrom(raw, kn) ==
    IF Len(kn) = 0
    THEN \* kline_new[-1] of the empty list, evaluated for the first raw bar
         [kn |-> kn, exc |-> IF Len(raw) > 0 THEN "IndexError" ELSE ""]
    ELSE MergeLoop(kn, KnRightK(raw, kn), 1)

update_kline_new(raw, kn0) == KnFrom(raw, DropLast(KnSeeded(raw, kn0), 2))

----------------------------------------------------------------------------
(* _update_fx_list: the fractal detector *)

\* the fractal, if any, of the triple kn[i-1], kn[i], kn[i+1] (lines 289-313)
FxAt(kn, i) ==
    LET k1 == kn[i - 1]
        k2 == kn[i]
        k3 == kn[i + 1]
    IN  IF k1.high < k2.high /\ k2.high > k3.high
        THEN << [dt |-> k2.dt, fx_mark |-> "g", fx |-> k2.high,
                 fx_high |-> k2.high, fx_low |-> Max2(k1.low, k3.low)] >>
        ELSE IF k1.low > k2.low /\ k2.low < k3.low
        THEN << [dt |-> k2.dt, fx_mark |-> "d", fx |-> k2.low,
                 fx_high |-> Min2(k1.high, k2.high), fx_low |-> k2.low] >>
        ELSE << >>

\* the while loop of lines 287-318, from the triple centred at i on
RECURSIVE FxScan(_, _)
FxScan(kn, i) ==
    IF i > Len(kn) - 1 THEN << >> ELSE FxAt(kn, i) \o FxScan(kn, i + 1)

\* lines 282-285: the merged bars from the last fractal on
FxWindowOf(kn, fx) ==
    LET From(x) == x.dt >= fx[Len(fx)].dt
    IN  IF Len(fx) = 0 THEN kn ELSE SelectSeq(LastN(kn, KnWindow), From)

\* lines 281-318 on the list without its last fractal
FxFrom(kn, fx) == fx \o FxScan(FxWindowOf(kn, fx), 2)

update_fx_list(kn, fx0) ==
    IF Len(kn) < 3 THEN fx0 ELSE FxFrom(kn, DropLast(fx0, 1))

----------------------------------------------------------------------------
(* _update_bi_list: the stroke builder *)

\* bi = dict(fx); bi['bi'] = bi.pop('fx')
FxToBi(f) == [dt |-> f.dt, fx_mark |-> f.fx_mark, bi |-> f.fx,
              fx_high |-> f.fx_high, fx_low |-> f.fx_low]

\* lines 359-360: the fractal is a more extreme one of the last stroke's mark
BiMoves(last_bi, b) ==
    \/ (last_bi.fx_mark = "g" /\ last_bi.bi < b.bi)
    \/ (last_bi.fx_mark = "d" /\ last_bi.bi > b.bi)

\* lines 368-369: the new endpoint does not overlap the last one
BiNoOverlap(last_bi, b) ==
    \/ (last_bi.fx_mark = "g" /\ b.fx_high < last_bi.fx_low)
    \/ (last_bi.fx_mark = "d" /\ b.fx_low > last_bi.fx_high)

\* a variant of the loop body that keeps the last endpoint and appends the
\* more extreme fractal of the same mark after it
BiStepKeepBoth(bi, f, right_kn, mk) ==
    LET last_bi == bi[Len(bi)]
        b == FxToBi(f)
        Inside(x) == last_bi.dt <= x.dt /\ x.dt <= b.dt
        kn_inside == SelectSeq(right_kn, Inside)
    IN  IF last_bi.fx_mark = f.fx_mark
        THEN IF BiMoves(last_bi, b) THEN Append(bi, b) ELSE bi
        ELSE IF Len(kn_inside) >= mk /\ BiNoOverlap(last_bi, b)
             THEN Append(bi, b) ELSE bi

\* a variant of the loop body that appends an opposite fractal whenever the
\* merged bars suffice, overlapping or not
BiStepOverlapping(bi, f, right_kn, mk) ==
    LET last_bi == bi[Len(bi)]
        b == FxToBi(f)
        Inside(x) == last_bi.dt <= x.dt /\ x.dt <= b.dt
        kn_inside == SelectSeq(right_kn, Inside)
    IN  IF last_bi.fx_mark = f.fx_mark
        THEN IF BiMoves(last_bi, b) THEN [bi EXCEPT ![Len(bi)] = b] ELSE bi
        ELSE IF Len(kn_inside) >= mk THEN Append(bi, b) ELSE bi

\* one pass of the loop body (lines 355-372); bi is not empty
BiStep(bi, f, right_kn, mk) ==
    LET last_bi == bi[Len(bi)]
        b == FxToBi(f)
        Inside(x) == last_bi.dt <= x.dt /\ x.dt <= b.dt
        kn_inside == SelectSeq(right_kn, Inside)
    IN  IF last_bi.fx_mark = f.fx_mark
        THEN IF BiMoves(last_bi, b) THEN [bi EXCEPT ![Len(bi)] = b] ELSE bi
        ELSE IF Len(kn_inside) >= mk /\ BiNoOverlap(last_bi, b)
             THEN Append(bi, b) ELSE bi

RECURSIVE BiLoop(_, _, _, _, _)
BiLoop(bi, right_fx, right_kn, mk, i) ==
    IF i > Len(right_fx) THEN bi
    ELSE BiLoop(BiStep(bi, right_fx[i], right_kn, mk), right_fx, right_kn, mk, i + 1)

\* lines 374-378: the last stroke is broken by the last merged bar
BiTailBroken(b, k) ==
    \/ (b.fx_mark = "d" /\ k.low < b.bi)
    \/ (b.fx_mark = "g" /\ k.high > b.bi)

\* lines 340-344: an empty list is seeded with the first two fractals
BiSeeded(fx, bi0) ==
    IF Len(bi0) = 0 THEN << FxToBi(fx[1]), FxToBi(fx[2]) >> ELSE bi0

\* lines 347-352: the fractals after, and the merged bars from, the last stroke
BiRightFx(fx, bi) ==
    LET After(x) == x.dt > bi[Len(bi)].dt
    IN  IF Len(bi) <= 2 THEN SelectSeq(fx, After)
        ELSE SelectSeq(LastN(fx, FxWindow), After)

BiRightKn(kn, bi) ==
    LET From(x) == x.dt >= bi[Len(bi)].dt
    IN  IF Len(bi) <= 2 THEN SelectSeq(kn, From)
        ELSE SelectSeq(LastN(kn, BiKnWindow), From)

\* lines 374-378 on the list the loop left
BiTail(kn, looped) ==
    IF BiTailBroken(looped[Len(looped)], kn[Len(kn)])
    THEN [bi |-> DropLast(looped, 1), exc |-> ""]
    ELSE [bi |-> looped, exc |-> ""]

\* lines 346-378 on the seeded list without its last stroke
BiFrom(kn, fx, bi, mk) ==
    IF Len(bi) = 0
    THEN [bi |-> bi, exc |-> "IndexError"]   \* bi_list[-1], line 348
    ELSE BiTail(kn, BiLoop(bi, BiRightFx(fx, bi), BiRightKn(kn, bi), mk, 1))

update_bi_list(kn, fx, bi0, mk) ==
    IF Len(fx) < 2 THEN [bi |-> bi0, exc |-> ""]
    ELSE BiFrom(kn, fx, DropLast(BiSeeded(fx, bi0), 1), mk)

----------------------------------------------------------------------------
(* _update_xd_list: the segment builder *)

\* xd = dict(bi); xd['xd'] = xd.pop('bi')
BiToXd(b) == [dt |-> b.dt, fx_mark |-> b.fx_mark, xd |-> b.bi,
              fx_high |-> b.fx_high, fx_low |-> b.fx_low]

\* a variant that takes every stroke of the mark for a candidate
XdCandidatesEvery(same, mark, i) == same

\* lines 443-446 and 447-450: the middle strokes of the triples of one mark
\* that form a valley (mark "d") or a peak (mark "g"); range(1, len - 2)
\* is, counting from 1, the middles 2 .. len - 2
RECURSIVE XdCandidates(_, _, _)
XdCandidates(same, mark, i) ==
    IF i > Len(same) - 2 THEN << >>
    ELSE LET p1 == same[i - 1]
             p2 == same[i]
             p3 == same[i + 1]
             hit == IF mark = "d" THEN p1.bi > p2.bi /\ p2.bi < p3.bi
                                  ELSE p1.bi < p2.bi /\ p2.bi > p3.bi
         IN  (IF hit THEN << p2 >> ELSE << >>) \o XdCandidates(same, mark, i + 1)

\* sorted(xd_p, key=dt): a stable sort
RECURSIVE InsertByDt(_, _)
InsertByDt(s, x) ==
    IF Len(s) = 0 THEN << x >>
    ELSE IF s[Len(s)].dt <= x.dt THEN Append(s, x)
    ELSE Append(InsertByDt(SubSeq(s, 1, Len(s) - 1), x), s[Len(s)])

RECURSIVE SortByDt(_)
SortByDt(s) ==
    IF Len(s) = 0 THEN << >>
    ELSE InsertByDt(SortByDt(SubSeq(s, 1, Len(s) - 1)), s[Len(s)])

\* lines 458-459: the candidate is a more extreme one of the last segment's mark
XdMoves(last_xd, x) ==
    \/ (last_xd.fx_mark = "d" /\ last_xd.xd > x.xd)
    \/ (last_xd.fx_mark = "g" /\ last_xd.xd < x.xd)

\* a variant in which the first case of the two-case rule never applies
XdCase1Never(r, third) == FALSE

\* lines 478-479, the first case of the two-case rule: no gap
XdCase1(r, third) ==
    \/ (r.fx_mark = "g" /\ r.bi > third.bi)
    \/ (r.fx_mark = "d" /\ r.bi < third.bi)

\* lines 485-486, the second case: a gap
XdCase2(r, second) ==
    \/ (r.fx_mark = "g" /\ r.bi < second.bi)
    \/ (r.fx_mark = "d" /\ r.bi > second.bi)

\* one pass of the loop body (lines 454-489); xd is not empty
XdStep(xd, xp, right_bi) ==
    LET x == BiToXd(xp)
        last_xd == xd[Len(xd)]
        Inside(b) == last_xd.dt <= b.dt /\ b.dt <= x.dt
        From(b) == b.dt >= x.dt
        bi_inside == SelectSeq(right_bi, Inside)
        bi_r == SelectSeq(right_bi, From)
        n == Len(bi_inside)
    IN  IF last_xd.fx_mark = x.fx_mark
        THEN [xd |-> IF XdMoves(last_xd, x) THEN [xd EXCEPT ![Len(xd)] = x] ELSE xd,
              exc |-> ""]
        ELSE IF n < 4 THEN [xd |-> xd, exc |-> ""]
        ELSE IF n > 4 THEN [xd |-> Append(xd, x), exc |-> ""]
        ELSE IF Len(bi_r) < 2 THEN [xd |-> xd, exc |-> "IndexError"]
        ELSE IF bi_r[2].fx_mark # bi_inside[n - 1].fx_mark
             THEN [xd |-> xd, exc |-> "AssertionError"]
        ELSE IF XdCase1(bi_r[2], bi_inside[n - 2]) \/ XdCase2(bi_r[2], bi_inside[n - 1])
             THEN [xd |-> Append(xd, x), exc |-> ""]
             ELSE [xd |-> xd, exc |-> ""]

RECURSIVE XdLoop(_, _, _, _)
XdLoop(xd, xd_p, right_bi, i) ==
    IF i > Len(xd_p) THEN [xd |-> xd, exc |-> ""]
    ELSE LET r == XdStep(xd, xd_p[i], right_bi)
         IN  IF r.exc # "" THEN r ELSE XdLoop(r.xd, xd_p, right_bi, i + 1)

\* lines 491-495: the last segment is broken by the last merged bar
XdTailBroken(x, k) ==
    \/ (x.fx_mark = "d" /\ k.low < x.xd)
    \/ (x.fx_mark = "g" /\ k.high > x.xd)

\* lines 429-434: the last two segments are dropped; an empty list is
\* seeded with the first three strokes
XdSeeded(bi, cut) ==
    IF Len(cut) = 0 THEN << BiToXd(bi[1]), BiToXd(bi[2]), BiToXd(bi[3]) >> ELSE cut

\* lines 436-439: the strokes from the last segment on
XdRightBi(bi, xd) ==
    LET From(b) == b.dt >= xd[Len(xd)].dt
    IN  IF Len(xd) <= 3 THEN SelectSeq(bi, From)
        ELSE SelectSeq(LastN(bi, BiWindow), From)

\* lines 440-452: the candidates in dt order
XdPoints(right_bi) ==
    LET IsD(b) == b.fx_mark = "d"
        IsG(b) == b.fx_mark = "g"
    IN  SortByDt(XdCandidates(SelectSeq(right_bi, IsD), "d", 2)
                 \o XdCandidates(SelectSeq(right_bi, IsG), "g", 2))

\* lines 491-495 on the outcome r of the loop
XdTail(kn, r) ==
    IF r.exc # "" THEN r
    ELSE IF XdTailBroken(r.xd[Len(r.xd)], kn[Len(kn)])
    THEN [xd |-> DropLast(r.xd, 1), exc |-> ""]
    ELSE r

XdScan(kn, xd, right_bi) == XdTail(kn, XdLoop(xd, XdPoints(right_bi), right_bi, 1))

XdFrom(kn, bi, xd) == XdScan(kn, xd, XdRightBi(bi, xd))

update_xd_list(kn, bi, xd0) ==
    IF Len(bi) < 4 THEN [xd |-> xd0, exc |-> ""]
    ELSE XdFrom(kn, bi, XdSeeded(bi, DropLast(xd0, 2)))

----------------------------------------------------------------------------
(* KlineAnalyze: the four updaters in order, the constructor and update *)

\* lines 187-190 and 520-523: each updater works on what the one before it
\* left; an exception leaves the later sequences as they were
AfterXd(kn, fx, bi, r4) ==
    [kn |-> kn, fx |-> fx, bi |-> bi, xd |-> r4.xd, exc |-> r4.exc]

AfterBi(kn, fx, r3, xd0) ==
    IF r3.exc # ""
    THEN [kn |-> kn, fx |-> fx, bi |-> r3.bi, xd |-> xd0, exc |-> r3.exc]
    ELSE AfterXd(kn, fx, r3.bi, update_xd_list(kn, r3.bi, xd0))

AfterFx(kn, fx, bi0, xd0, mk) ==
    AfterBi(kn, fx, update_bi_list(kn, fx, bi0, mk), xd0)

AfterKn(r1, fx0, bi0, xd0, mk) ==
    IF r1.exc # ""
    THEN [kn |-> r1.kn, fx |-> fx0, bi |-> bi0, xd |-> xd0, exc |-> r1.exc]
    ELSE AfterFx(r1.kn, update_fx_list(r1.kn, fx0), bi0, xd0, mk)

Pipeline(raw, kn0, fx0, bi0, xd0, mk) ==
    AfterKn(update_kline_new(raw, kn0), fx0, bi0, xd0, mk)

\* the analyzer that holds raw and the sequences p
With(raw, p) ==
    [raw |-> raw, kn |-> p.kn, fx |-> p.fx, bi |-> p.bi, xd |-> p.xd, exc |-> p.exc]

\* lines 181-190 on the list raw = kline[-max_raw_len:]
Construct(raw, mk) ==
    IF Len(raw) = 0
    THEN [raw |-> raw, kn |-> << >>, fx |-> << >>, bi |-> << >>, xd |-> << >>,
          exc |-> "IndexError"]          \* self.kline_raw[0], line 182
    ELSE With(raw, Pipeline(raw, << >>, << >>, << >>, << >>, mk))

\* KlineAnalyze(kline, min_bi_k=mk, max_raw_len=mrl)
KlineAnalyze(kline, mk, mrl) == Construct(LastN(kline, mrl), mk)

\* a variant that tells a new period by its dt instead of its open
RawAfterByDt(raw, k) ==
    IF Len(raw) = 0 \/ k.dt # raw[Len(raw)].dt
    THEN Append(raw, k)
    ELSE [raw EXCEPT ![Len(raw)] = k]


\* lines 513-518: a bar with a new open is appended, another one replaces
\* the last raw bar
RawAfter(raw, k) ==
    IF Len(raw) = 0 \/ k.open # raw[Len(raw)].open
    THEN Append(raw, k)
    ELSE [raw EXCEPT ![Len(raw)] = k]

\* lines 526-531: the retention trim, made when no updater raised
Retained(raw, p, mrl) ==
    IF p.exc = "" /\ Len(raw) > mrl
    THEN [raw |-> LastN(raw, mrl), kn |-> LastN(p.kn, mrl),
          fx |-> LastN(p.fx, mrl \div 2), bi |-> LastN(p.bi, mrl \div 4),
          xd |-> LastN(p.xd, mrl \div 8), exc |-> ""]
    ELSE With(raw, p)

\* lines 520-531 on the raw series that lines 513-518 left
Refresh(raw, s, mk, mrl) ==
    Retained(raw, Pipeline(raw, s.kn, s.fx, s.bi, s.xd, mk), mrl)

\* ka.update(k) on the analyzer s = [raw, kn, fx, bi, xd]
update(s, k, mk, mrl) == Refresh(RawAfter(s.raw, k), s, mk, mrl)

\* the analyzer as it stands
Self == [raw |-> kline_raw, kn |-> kline_new, fx |-> fx_list, bi |-> bi_list,
         xd |-> xd_list]

----------------------------------------------------------------------------
(* find_zs: the pivot finder *)

\* lines 73-75: a stroke point gets its price under the key 'xd' as well
WithXd(x) == [dt |-> x.dt, fx_mark |-> x.fx_mark, bi |-> x.bi, xd |-> x.bi]

RECURSIVE SeqMax(_)
SeqMax(s) == IF Len(s) = 1 THEN s[1] ELSE Max2(s[1], SeqMax(Tail(s)))

RECURSIVE SeqMin(_)
SeqMin(s) == IF Len(s) = 1 THEN s[1] ELSE Min2(s[1], SeqMin(Tail(s)))

\* [x['xd'] for x in s if x['fx_mark'] == mark]
RECURSIVE PricesOf(_, _)
PricesOf(s, mark) ==
    IF Len(s) = 0 THEN << >>
    ELSE (IF s[1].fx_mark = mark THEN << s[1].xd >> ELSE << >>) \o PricesOf(Tail(s), mark)

\* a variant of the zone's upper edge taken over all the members
ZsGAll(zs_xd) == SeqMin(PricesOf(zs_xd, "g"))

\* lines 86-87 and 125-126: the zone of the first four members
ZsD(zs_xd) == SeqMax(PricesOf(FirstN(zs_xd, 4), "d"))
ZsG(zs_xd) == SeqMin(PricesOf(FirstN(zs_xd, 4), "g"))

\* the dict appended to k_zs (lines 97-106, 110-119, 127-135); third_buy and
\* third_sell hold the point, or nothing when the key is absent
Pivot(zs_xd, buy, sell) ==
    [ZD |-> ZsD(zs_xd), ZG |-> ZsG(zs_xd),
     G |-> SeqMin(PricesOf(zs_xd, "g")), GG |-> SeqMax(PricesOf(zs_xd, "g")),
     D |-> SeqMax(PricesOf(zs_xd, "d")), DD |-> SeqMin(PricesOf(zs_xd, "d")),
     points |-> zs_xd, third_buy |-> buy, third_sell |-> sell]

\* the loop of lines 81-122 from index i on (counting from 1)
RECURSIVE ZsLoop(_, _, _, _)
ZsLoop(k_xd, zs_xd, k_zs, i) ==
    IF i > Len(k_xd) THEN [zs_xd |-> zs_xd, k_zs |-> k_zs]
    ELSE IF Len(zs_xd) < 5 THEN ZsLoop(k_xd, Append(zs_xd, k_xd[i]), k_zs, i + 1)
    ELSE LET xd_p == k_xd[i]
             zs_d == ZsD(zs_xd)
             zs_g == ZsG(zs_xd)
         IN  IF zs_g <= zs_d
             THEN ZsLoop(k_xd, Tail(Append(zs_xd, xd_p)), k_zs, i + 1)
             ELSE IF xd_p.fx_mark = "d" /\ xd_p.xd > zs_g
             THEN ZsLoop(k_xd, << k_xd[i - 1], xd_p >>,
                         Append(k_zs, Pivot(zs_xd, << xd_p >>, << >>)), i + 1)
             ELSE IF xd_p.fx_mark = "g" /\ xd_p.xd < zs_d
             THEN ZsLoop(k_xd, << k_xd[i - 1], xd_p >>,
                         Append(k_zs, Pivot(zs_xd, << >>, << xd_p >>)), i + 1)
             ELSE ZsLoop(k_xd, Append(zs_xd, xd_p), k_zs, i + 1)

\* lines 69-75: the caller's list after the call; the records of a list of
\* five or more stroke points are given their xd key in place
PointsAfter(points) ==
    IF Len(points) <= 4 THEN points
    ELSE [i \in 1..Len(points) |-> WithXd(points[i])]

find_zs(points) ==
    IF Len(points) <= 4 THEN << >>
    ELSE LET k_xd == PointsAfter(points)
             r == ZsLoop(k_xd, << >>, << >>, 1)
         IN  IF Len(r.zs_xd) >= 5
             THEN Append(r.k_zs, Pivot(r.zs_xd, << >>, << >>))
             ELSE r.k_zs

----------------------------------------------------------------------------
(* is_bei_chi: the divergence test.  df is the frame of ka.to_df, one row  *)
(* [dt, macd] per raw bar; adjust is given in tenths.                      *)

\* a variant that counts every row of the leg, whatever its sign
RECURSIVE MacdSumAll(_, _, _)
MacdSumAll(df, zs, sign) ==
    IF Len(df) = 0 THEN 0
    ELSE LET x == df[1]
             in_leg == x.dt >= zs.start_dt /\ x.dt <= zs.end_dt
             abs == IF x.macd < 0 THEN 0 - x.macd ELSE x.macd
         IN  (IF in_leg THEN abs ELSE 0) + MacdSumAll(Tail(df), zs, sign)

\* sum([abs(x) for x in k.macd if keep(x)]) over the rows of one leg
RECURSIVE MacdSum(_, _, _)
MacdSum(df, zs, sign) ==
    IF Len(df) = 0 THEN 0
    ELSE LET x == df[1]
             in_leg == x.dt >= zs.start_dt /\ x.dt <= zs.end_dt
             keep == \/ sign = "all"
                     \/ sign = "down" /\ x.macd < 0
                     \/ sign = "up" /\ x.macd > 0
             abs == IF x.macd < 0 THEN 0 - x.macd ELSE x.macd
         IN  (IF in_leg /\ keep THEN abs ELSE 0) + MacdSum(Tail(df), zs, sign)

\* a variant that scales the recent leg instead of the earlier one
WeakerScaledRecent(macd_sum1, macd_sum2, adjust) == macd_sum1 * adjust < 10 * macd_sum2

\* lines 40 and 58: macd_sum1 < macd_sum2 * adjust, adjust in tenths
Weaker(macd_sum1, macd_sum2, adjust) == 10 * macd_sum1 < macd_sum2 * adjust

is_bei_chi(df, zs1, zs2, mode, adjust) ==
    IF ~(zs1.start_dt > zs2.end_dt) \/ ~(zs1.start_dt < zs1.end_dt)
         \/ ~(zs2.start_dt < zs2.end_dt)
    THEN [exc |-> "AssertionError", bc |-> FALSE]
    ELSE IF mode = "bi"
    THEN [exc |-> "",
          bc |-> Weaker(MacdSum(df, zs1, "all"), MacdSum(df, zs2, "all"), adjust)]
    ELSE IF mode = "xd"
    THEN IF zs1.direction \notin {"down", "up"} \/ zs2.direction \notin {"down", "up"}
         THEN [exc |-> "AssertionError", bc |-> FALSE]
         ELSE [exc |-> "",
               bc |-> Weaker(MacdSum(df, zs1, IF zs1.direction = "down" THEN "down" ELSE "up"),
                             MacdSum(df, zs2, IF zs2.direction = "down" THEN "down" ELSE "up"),
                             adjust)]
    ELSE [exc |-> "ValueError", bc |-> FALSE]

----------------------------------------------------------------------------
(* The analyzer as a state machine *)

\* the bars of the "ticks" feed: points and one range over three price
\* levels; the range opens at its high
Shapes ==
    { [open |-> 1, high |-> 1, low |-> 1, close |-> 1],
      [open |-> 2, high |-> 2, low |-> 2, close |-> 2],
      [open |-> 3, high |-> 3, low |-> 3, close |-> 3],
      [open |-> 2, high |-> 2, low |-> 1, close |-> 1] }

\* the price levels of the "walk" and "swing" feeds, whose bars are points
Levels == 1..4

Bar(dt, sh) == [dt |-> dt, open |-> sh.open, high |-> sh.high, low |-> sh.low,
                close |-> sh.close]

Point(dt, p) == [dt |-> dt, open |-> p, high |-> p, low |-> p, close |-> p]

\* "ticks": a refresh of the period in progress (same dt, same open) or the
\* first bar of the next period
TickBars(raw) ==
    LET last == raw[Len(raw)]
    IN  { Bar(last.dt, sh) : sh \in { x \in Shapes : x.open = last.open } }
        \cup (IF last.dt < MaxBars THEN { Bar(last.dt + 1, sh) : sh \in Shapes }
              ELSE {})

\* "walk": each period closes as a point at another level
WalkBars(raw) ==
    LET last == raw[Len(raw)]
    IN  IF last.dt < MaxWalk
        THEN { Point(last.dt + 1, p) : p \in Levels \ {last.high} }
        ELSE {}

\* "swing": each period moves one level up or down, and the move turns
\* round only after two moves in the same direction
SwingSteps(raw) ==
    LET n == Len(raw)
        d1 == raw[n].high - raw[n - 1].high
        turn_ok == n >= 3 /\ raw[n - 1].high - raw[n - 2].high = d1
    IN  IF n < 2 THEN {-1, 1}
        ELSE { d \in {-1, 1} : d = d1 \/ turn_ok }

SwingBars(raw) ==
    LET last == raw[Len(raw)]
    IN  IF last.dt < MaxSwing
        THEN { Point(last.dt + 1, last.high + d) :
                 d \in { x \in SwingSteps(raw) : last.high + x \in Levels } }
        ELSE {}

\* "stray": point bars that arrive out of order, each dated one period
\* before or one period after the last raw bar
StrayBars(raw) ==
    LET last == raw[Len(raw)]
    IN  IF Len(raw) < MaxStray
        THEN { Point(d, p) : d \in { x \in {last.dt - 1, last.dt + 1} : x >= 1 /\ x <= MaxStray },
                             p \in Levels }
        ELSE {}

\* "jumps": each period closes as a point at another of five levels
JumpLevels == 1..5

JumpBars(raw) ==
    LET last == raw[Len(raw)]
    IN  IF last.dt < MaxJumps
        THEN { Point(last.dt + 1, p) : p \in JumpLevels \ {last.high} }
        ELSE {}

\* "dips": each period opens as a point at a level other than the last
\* open, and the period in progress can be refreshed (same dt, same open)
\* with a lower low at which it closes
DipBars(raw) ==
    LET last == raw[Len(raw)]
    IN  { [last EXCEPT !.low = l, !.close = l] : l \in { x \in Levels : x < last.low } }
        \cup (IF last.dt < MaxDips
              THEN { Point(last.dt + 1, p) : p \in Levels \ {last.open} }
              ELSE {})

\* "stairs": the ascending staircase; each period's high and low are one or
\* two levels above the last period's, and the bar falls or rises
Stair(dt, high, low, falls) ==
    [dt |-> dt, high |-> high, low |-> low,
     open |-> IF falls THEN high ELSE low, close |-> IF falls THEN low ELSE high]

FirstStairs == { Stair(1, h, 1, falls) : h \in {1, 2}, falls \in BOOLEAN }

StairBars(raw) ==
    LET last == raw[Len(raw)]
    IN  IF last.dt < MaxStairs
        THEN { b \in { Stair(last.dt + 1, last.high + up[1], last.low + up[2], falls) :
                         up \in {1, 2} \X {1, 2}, falls \in BOOLEAN } : b.low <= b.high }
        ELSE {}

\* the lists of n bars of consecutive periods 1 .. n that a feed delivers
RECURSIVE Klines(_, _)
Klines(kind, n) ==
    IF n = 0 THEN { << >> }
    ELSE IF n = 1
    THEN IF kind = "ticks" THEN { << Bar(1, sh) >> : sh \in Shapes }
         ELSE IF kind = "stairs" THEN { << b >> : b \in FirstStairs }
         ELSE IF kind = "jumps" THEN { << Point(1, p) >> : p \in JumpLevels }
         ELSE { << Point(1, p) >> : p \in Levels }
    ELSE UNION { { Append(ks, k) :
                     k \in { b \in (IF kind = "ticks" THEN TickBars(ks)
                                    ELSE IF kind = "swing" THEN SwingBars(ks)
                                    ELSE IF kind = "stairs" THEN StairBars(ks)
                                    ELSE IF kind = "jumps" THEN JumpBars(ks)
                                    ELSE IF kind = "dips" THEN DipBars(ks)
                                    ELSE WalkBars(ks)) : b.dt = n } } :
                 ks \in Klines(kind, n - 1) }

\* the constructor arguments tried on each feed (the source's defaults are
\* min_bi_k = 5 and max_raw_len = 10000)
MinBiKs(kind) == IF kind = "ticks" THEN {2, 3} ELSE IF kind = "walk" THEN {3} ELSE {2}
MaxRawLens(kind) == IF kind = "ticks" THEN {6, 10000} ELSE {10000}

NextBars ==
    IF feed = "ticks" THEN TickBars(kline_raw)
    ELSE IF feed = "walk" THEN WalkBars(kline_raw)
    ELSE IF feed = "stray" THEN StrayBars(kline_raw)
    ELSE IF feed = "stairs" THEN StairBars(kline_raw)
    ELSE IF feed = "jumps" THEN JumpBars(kline_raw)
    ELSE IF feed = "dips" THEN DipBars(kline_raw)
    ELSE SwingBars(kline_raw)

\* the analyzer is the record s
Stands(s) ==
    /\ kline_raw = s.raw
    /\ kline_new = s.kn
    /\ fx_list = s.fx
    /\ bi_list = s.bi
    /\ xd_list = s.xd
    /\ raised = s.exc

\* ka = KlineAnalyze(kline, min_bi_k=.., max_raw_len=..)
InitKa(kind) ==
    /\ feed = kind
    /\ min_bi_k \in MinBiKs(kind)
    /\ max_raw_len \in MaxRawLens(kind)
    /\ \E kline \in UNION { Klines(kind, n) : n \in 1..InitLen } :
         Stands(KlineAnalyze(kline, min_bi_k, max_raw_len))
    /\ call = [op |-> "new"]

IdleKa ==
    /\ feed = "none" /\ min_bi_k = 5 /\ max_raw_len = 10000
    /\ kline_raw = << >> /\ kline_new = << >> /\ fx_list = << >>
    /\ bi_list = << >> /\ xd_list = << >> /\ raised = ""
    /\ call = [op |-> "none"]

IdleZs == zs_points = << >> /\ zs_out = << >>
IdleBc == bc_in = << >> /\ bc_out = << >>
IdleMg == mg_in = << >> /\ mg_out = << >>
IdleQmt ==
    /\ symbol_max_pos = <<0, 1>> /\ traders = << >>
    /\ account = << >> /\ orders = << >>

\* the analyzer becomes the record s
Becomes(s) ==
    /\ kline_raw' = s.raw
    /\ kline_new' = s.kn
    /\ fx_list' = s.fx
    /\ bi_list' = s.bi
    /\ xd_list' = s.xd
    /\ raised' = s.exc

\* ka.update(k)
Update ==
    /\ feed # "none"
    /\ raised = ""
    /\ \E k \in NextBars :
         /\ Becomes(update(Self, k, min_bi_k, max_raw_len))
         /\ call' = [op |-> "update", k |-> k]
    /\ UNCHANGED <<min_bi_k, max_raw_len, feed, zs_points, zs_out, bc_in, bc_out,
                   mg_in, mg_out, qmtVars>>

Init == InitKa("ticks") /\ IdleZs /\ IdleBc /\ IdleMg /\ IdleQmt
Next == Update
Spec == Init /\ [][Next]_vars

InitWalk == InitKa("walk") /\ IdleZs /\ IdleBc /\ IdleMg /\ IdleQmt
SpecWalk == InitWalk /\ [][Next]_vars

InitSwing == InitKa("swing") /\ IdleZs /\ IdleBc /\ IdleMg /\ IdleQmt
SpecSwing == InitSwing /\ [][Next]_vars

InitStray == InitKa("stray") /\ IdleZs /\ IdleBc /\ IdleMg /\ IdleQmt
SpecStray == InitStray /\ [][Next]_vars

InitStairs == InitKa("stairs") /\ IdleZs /\ IdleBc /\ IdleMg /\ IdleQmt
SpecStairs == InitStairs /\ [][Next]_vars

InitJumps == InitKa("jumps") /\ IdleZs /\ IdleBc /\ IdleMg /\ IdleQmt
SpecJumps == InitJumps /\ [][Next]_vars

InitDips == InitKa("dips") /\ IdleZs /\ IdleBc /\ IdleMg /\ IdleQmt
SpecDips == InitDips /\ [][Next]_vars

\* an analyzer on any of the three in-order feeds
InitAny == (InitKa("ticks") \/ InitKa("walk") \/ InitKa("swing")) /\ IdleZs /\ IdleBc /\ IdleMg /\ IdleQmt
SpecAny == InitAny /\ [][Next]_vars

----------------------------------------------------------------------------
(* find_zs and is_bei_chi as state machines: the arguments are drawn in    *)
(* the initial state and one call stores what the function returns         *)

Marks == {"d", "g"}
Prices == 1..4

Other(mark) == IF mark = "d" THEN "g" ELSE "d"

\* the lists of n stroke points with dt 1 .. n and alternating marks
RECURSIVE AltPoints(_)
AltPoints(n) ==
    IF n = 0 THEN { << >> }
    ELSE IF n = 1 THEN { << [dt |-> 1, fx_mark |-> m, bi |-> p] >> : m \in Marks, p \in Prices }
    ELSE { Append(ps, [dt |-> n, fx_mark |-> Other(ps[n - 1].fx_mark), bi |-> p]) :
             ps \in AltPoints(n - 1), p \in Prices }

InitZs ==
    /\ IdleKa /\ IdleBc /\ IdleMg /\ IdleQmt
    /\ zs_points \in UNION { AltPoints(n) : n \in 4..MaxPoints }
    /\ zs_out = << >>

\* k_zs = find_zs(points)
FindZs ==
    /\ call.op = "none"
    /\ zs_points # << >>
    /\ zs_out' = find_zs(zs_points)
    /\ zs_points' = PointsAfter(zs_points)
    /\ call' = [op |-> "find_zs"]
    /\ UNCHANGED <<kaVars, bc_in, bc_out, mg_in, mg_out, qmtVars>>

NextZs == FindZs
SpecZs == InitZs /\ [][NextZs]_vars

MaxLong == 9                      \* points of the longer lists given to find_zs
LowPrices == 1..3

\* the mark-alternating list of stroke points in dt order that starts with
\* the mark m and has the prices f[1], f[2], ...
LongPoints(m, f) ==
    [i \in DOMAIN f |-> [dt |-> i, fx_mark |-> IF i % 2 = 1 THEN m ELSE Other(m),
                         bi |-> f[i]]]

\* the six endpoints d10, g12, d11, g13, d12, g15
SixEndpoints ==
    << [dt |-> 1, fx_mark |-> "d", bi |-> 10], [dt |-> 2, fx_mark |-> "g", bi |-> 12],
       [dt |-> 3, fx_mark |-> "d", bi |-> 11], [dt |-> 4, fx_mark |-> "g", bi |-> 13],
       [dt |-> 5, fx_mark |-> "d", bi |-> 12], [dt |-> 6, fx_mark |-> "g", bi |-> 15] >>

InitZsLong ==
    /\ IdleKa /\ IdleBc /\ IdleMg /\ IdleQmt
    /\ \/ \E n \in 3..MaxLong, m \in Marks :
            \E f \in [1..n -> LowPrices] : zs_points = LongPoints(m, f)
       \/ zs_points = SixEndpoints
    /\ zs_out = << >>

SpecZsLong == InitZsLong /\ [][NextZs]_vars

NumRows == 4                      \* rows of the frame given to is_bei_chi
MacdValues == {-1, 1, 2}
Spans == { <<1, 2>>, <<3, 4>>, <<2, 2>> }
Directions == {"up", "down", "flat"}
Modes == {"bi", "xd", "zs"}
Adjusts == {6, 9, 10}             \* 0.6, 0.9 (the default) and 1.0

Leg(span, dir) == [start_dt |-> span[1], end_dt |-> span[2], direction |-> dir]

InitBc ==
    /\ IdleKa /\ IdleZs /\ IdleMg /\ IdleQmt
    /\ \E m \in [1..NumRows -> MacdValues], s1 \in Spans, s2 \in Spans,
          d1 \in Directions, d2 \in Directions, mode \in Modes, a \in Adjusts :
         bc_in = [df |-> [i \in 1..NumRows |-> [dt |-> i, macd |-> m[i]]],
                  zs1 |-> Leg(s1, d1), zs2 |-> Leg(s2, d2),
                  mode |-> mode, adjust |-> a]
    /\ bc_out = << >>

\* bc = is_bei_chi(ka, zs1, zs2, mode, adjust)
IsBeiChi ==
    /\ call.op = "none"
    /\ bc_in # << >>
    /\ bc_out' = is_bei_chi(bc_in.df, bc_in.zs1, bc_in.zs2, bc_in.mode, bc_in.adjust)
    /\ call' = [op |-> "is_bei_chi"]
    /\ UNCHANGED <<kaVars, zs_points, zs_out, bc_in, mg_in, mg_out, qmtVars>>

NextBc == IsBeiChi
SpecBc == InitBc /\ [][NextBc]_vars

MaxHigh == 3                      \* price levels of the bars given to the loop body

\* the bars of period dt with low <= high within the levels, falling or rising
PriceBars(dt) ==
    { [dt |-> dt, high |-> hl[1], low |-> hl[2],
       open |-> IF falls THEN hl[1] ELSE hl[2],
       close |-> IF falls THEN hl[2] ELSE hl[1]] :
        hl \in { x \in (1..MaxHigh) \X (1..MaxHigh) : x[2] <= x[1] }, falls \in BOOLEAN }

\* the merged series holds two bars and the bar k of the next period comes in
InitMg ==
    /\ IdleKa /\ IdleZs /\ IdleBc /\ IdleQmt
    /\ \E k1 \in PriceBars(1), k2 \in PriceBars(2), k \in PriceBars(3) :
         /\ mg_in = [kline_new |-> << k1, k2 >>, k |-> k]
    /\ mg_out = << >>

\* one pass of the loop of lines 227-256
Merge ==
    /\ call.op = "none"
    /\ mg_in # << >>
    /\ mg_out' = MergeStep(mg_in.kline_new, mg_in.k)
    /\ call' = [op |-> "merge"]
    /\ UNCHANGED <<kaVars, zs_points, zs_out, bc_in, bc_out, mg_in, qmtVars>>

NextMg == Merge
SpecMg == InitMg /\ [][NextMg]_vars

----------------------------------------------------------------------------
(* QmtTradeManager: the order path of update_traders.  The broker, the     *)
(* bar source and the strategy are outside the source: what they return is *)
(* drawn from small sets.  symbol_max_pos is the ratio num / den.          *)

Symbols == << "A", "B" >>         \* self.symbols, in the order of self.traders
ClosePrices == {1, 2}             \* news[-1].close
CashLevels == {0, 240, 600}       \* assets.cash at the start
Volumes == {0, 150}               \* can_use_volume of a position at the start
MaxPosRatios == { <<0, 1>>, <<1, 2>> }      \* 0 and the default 0.5

\* lines 298-305: an open order of the symbol and the type exists (volume
\* is None in the only call, at line 320)
is_order_exist(acct, symbol, order_type) ==
    \E o \in acct.open : o.stock_code = symbol /\ o.order_type = order_type

\* lines 313-339
is_allow_open(smp, acct, symbol, price) ==
    IF is_order_exist(acct, symbol, 23) THEN FALSE
    ELSE IF smp[1] <= 0 THEN FALSE
    ELSE IF symbol \in DOMAIN acct.holds THEN FALSE
    ELSE IF acct.cash < price * 120 THEN FALSE
    ELSE TRUE

\* line 410: min(symbol_max_pos * total_asset, cash) // close
BuyVolume(smp, acct, close) ==
    Min2(smp[1] * acct.total_asset, smp[2] * acct.cash) \div (smp[2] * close)

\* lines 383-384
RoundedVolume(order_volume) ==
    IF order_volume % 100 # 0 THEN (order_volume \div 100) * 100 ELSE order_volume

\* lines 353-389: the order is handed to the broker when the connection
\* stands at line 386, and the assertion fails otherwise; the broker keeps
\* an order of a positive volume as an open order
send_stock_order(st, symbol, order_type, order_volume, connected) ==
    LET o == [stock_code |-> symbol, order_type |-> order_type,
              order_volume |-> RoundedVolume(order_volume)]
    IN  IF ~connected THEN [st EXCEPT !.exc = "AssertionError"]
        ELSE [st EXCEPT !.orders = Append(@, o),
                        !.account.open = IF o.order_volume > 0 THEN @ \cup {o} ELSE @]

\* lines 407-411: the buy of one symbol
BuyStep(st, smp, symbol, in) ==
    IF in.pos = 1 /\ is_allow_open(smp, st.account, symbol, in.close)
    THEN send_stock_order(st, symbol, 23, BuyVolume(smp, st.account, in.close),
                          in.connected)
    ELSE st

\* lines 413-416: the sell of one symbol, of what was held at line 393
SellStep(st, holds, symbol, in) ==
    IF in.pos = 0 /\ symbol \in DOMAIN holds
    THEN send_stock_order(st, symbol, 24, holds[symbol], in.connected)
    ELSE st

\* lines 396-427: one pass of the loop; on_bar moves the trader on before
\* any order is sent, and an exception skips the rest of the pass
TraderStep(st, smp, holds, symbol, in) ==
    IF ~in.news THEN st
    ELSE LET moved == [st EXCEPT !.traders[symbol] =
                         [end_dt |-> @.end_dt + 1, pos |-> in.pos]]
             bought == BuyStep(moved, smp, symbol, in)
         IN  IF bought.exc # "" THEN [bought EXCEPT !.exc = ""]
             ELSE [SellStep(bought, holds, symbol, in) EXCEPT !.exc = ""]

\* lines 391-427 from the i-th symbol on
RECURSIVE TradersLoop(_, _, _, _, _)
TradersLoop(st, smp, holds, ins, i) ==
    IF i > Len(Symbols) THEN st
    ELSE TradersLoop(TraderStep(st, smp, holds, Symbols[i], ins[i]), smp, holds, ins, i + 1)

update_traders(st, smp, ins) == TradersLoop(st, smp, st.account.holds, ins, 1)

\* what the bar source, the strategy and the connection give for one symbol
TraderInputs(t) ==
    { [news |-> FALSE, close |-> 1, pos |-> t.pos, connected |-> TRUE] }
    \cup (IF t.end_dt < MaxRounds
          THEN [news : {TRUE}, close : ClosePrices, pos : {0, 1}, connected : BOOLEAN]
          ELSE {})

\* the accounts: nothing or one position held, no open order
Accounts ==
    { [cash |-> c, total_asset |-> c + m, holds |-> h, open |-> {}] :
        c \in CashLevels, m \in {0, 600},
        h \in {<< >>} \cup { [s \in {x} |-> v] : x \in {"A", "B"}, v \in Volumes } }

InitQmt ==
    /\ IdleKa /\ IdleZs /\ IdleBc /\ IdleMg
    /\ symbol_max_pos \in MaxPosRatios
    /\ traders = [s \in {"A", "B"} |-> [end_dt |-> 0, pos |-> 0]]
    /\ account \in Accounts
    /\ orders = << >>

\* manager.update_traders()
UpdateTraders ==
    /\ traders # << >>
    /\ \E ins \in [1..Len(Symbols) -> UNION { TraderInputs(traders[s]) : s \in DOMAIN traders }] :
         /\ \A i \in 1..Len(Symbols) : ins[i] \in TraderInputs(traders[Symbols[i]])
         /\ \E i \in 1..Len(Symbols) : ins[i].news
         /\ LET r == update_traders([traders |-> traders, account |-> account,
                                     orders |-> orders, exc |-> ""],
                                    symbol_max_pos, ins)
            IN  /\ traders' = r.traders
                /\ account' = r.account
                /\ orders' = r.orders
         /\ call' = [op |-> "update_traders", ins |-> ins]
    /\ UNCHANGED <<kaVars, zs_points, zs_out, bc_in, bc_out, mg_in, mg_out, symbol_max_pos>>

\* the broker fills an open order at one of the prices: a buy becomes a
\* position, a sell takes from one
BrokerFills ==
    /\ \E o \in account.open, price \in ClosePrices :
         /\ o.order_type = 23 => account.cash >= o.order_volume * price
         /\ account' =
              [account EXCEPT
                 !.open = @ \ {o},
                 !.cash = IF o.order_type = 23 THEN @ - o.order_volume * price
                          ELSE @ + o.order_volume * price,
                 !.holds = IF o.order_type = 23
                           THEN [s \in DOMAIN @ \cup {o.stock_code} |->
                                   IF s = o.stock_code
                                   THEN (IF s \in DOMAIN @ THEN @[s] ELSE 0) + o.order_volume
                                   ELSE @[s]]
                           ELSE [@ EXCEPT ![o.stock_code] = Max2(@ - o.order_volume, 0)]]
    /\ call' = [op |-> "fill"]
    /\ UNCHANGED <<kaVars, zs_points, zs_out, bc_in, bc_out, mg_in, mg_out,
                   symbol_max_pos, traders, orders>>

NextQmt == UpdateTraders \/ BrokerFills
SpecQmt == InitQmt /\ [][NextQmt]_vars

----------------------------------------------------------------------------
(* What the properties compare *)

\* an analyzer's five sequences
Seqs(s) == [raw |-> s.raw, kn |-> s.kn, fx |-> s.fx, bi |-> s.bi, xd |-> s.xd]

\* the derived sequences compared by dt and price
View(s) ==
    [kn |-> [i \in 1..Len(s.kn) |-> << s.kn[i].dt, s.kn[i].high, s.kn[i].low >>],
     fx |-> [i \in 1..Len(s.fx) |-> << s.fx[i].dt, s.fx[i].fx_mark, s.fx[i].fx >>],
     bi |-> [i \in 1..Len(s.bi) |-> << s.bi[i].dt, s.bi[i].fx_mark, s.bi[i].bi >>],
     xd |-> [i \in 1..Len(s.xd) |-> << s.xd[i].dt, s.xd[i].fx_mark, s.xd[i].xd >>]]

\* the analyzer a constructor call on the raw series would give
Rebuilt(raw) == KlineAnalyze(raw, min_bi_k, max_raw_len)

Completed == raised = ""

\* the number of merged bars with dt in [lo, hi]
KnBetween(lo, hi) ==
    Cardinality({ j \in 1..Len(kline_new) :
                    lo <= kline_new[j].dt /\ kline_new[j].dt <= hi })

\* the number of strokes with dt in (lo, hi]
BiBetween(lo, hi) ==
    Cardinality({ j \in 1..Len(bi_list) : lo < bi_list[j].dt /\ bi_list[j].dt <= hi })

----------------------------------------------------------------------------
(* C1: replay equivalence.  An analyzer that stands exactly as the         *)
(* constructor leaves it on its raw series, and is then given one more bar *)
(* of a later period through update, ends with the merged, fractal, stroke *)
(* and segment sequences (by dt and price) that the constructor gives on   *)
(* the whole series.                                                       *)
C1_ReplayEquivalence ==
    [][ ( /\ call'.op = "update"
          /\ raised = "" /\ raised' = ""
          /\ Seqs(Self) = Seqs(Rebuilt(kline_raw))
          /\ call'.k.dt > kline_raw[Len(kline_raw)].dt
          /\ kline_raw' = Append(kline_raw, call'.k)
          /\ Rebuilt(kline_raw').exc = "" )
        => View([kn |-> kline_new', fx |-> fx_list', bi |-> bi_list', xd |-> xd_list'])
             = View(Rebuilt(kline_raw')) ]_vars

(* C2: replacement then finalization.  From any state, for two bars X1, X2 *)
(* of the next period with the same open, which is not the open of the     *)
(* last raw bar, update(X1) followed by update(X2) leaves the five         *)
(* sequences as update(X2) alone does.                                     *)
C2_ReplaceThenFinalize ==
    Completed =>
      LET last == kline_raw[Len(kline_raw)]
          fresh == { k \in NextBars : k.dt > last.dt /\ k.open # last.open }
      IN  \A X1 \in fresh, X2 \in fresh :
            X1.open = X2.open =>
              LET a == update(Self, X1, min_bi_k, max_raw_len)
                  ab == update(a, X2, min_bi_k, max_raw_len)
                  b == update(Self, X2, min_bi_k, max_raw_len)
              IN  (a.exc = "" /\ ab.exc = "" /\ b.exc = "") => Seqs(ab) = Seqs(b)

(* C3: update(bar) appends the bar to the raw series when the series is    *)
(* empty or the bar's open differs from the last raw bar's open (the       *)
(* length grows by one and only the retention trim may then cut the front);*)
(* otherwise the bar overwrites the last raw bar, the length is unchanged  *)
(* and no other raw bar changes.                                           *)
C3_AppendOrReplace ==
    [][ call'.op = "update" =>
          LET k == call'.k
              n == Len(kline_raw)
              grown == kline_raw \o << k >>
          IN  IF n = 0 \/ k.open # kline_raw[n].open
              THEN \/ kline_raw' = grown
                   \/ /\ n + 1 > max_raw_len
                      /\ raised' = ""
                      /\ kline_raw' = SubSeq(grown, n + 2 - max_raw_len, n + 1)
              ELSE /\ Len(kline_raw') = n
                   /\ kline_raw'[n] = k
                   /\ \A i \in 1..(n - 1) : kline_raw'[i] = kline_raw[i] ]_vars

\* an update overwrote a bar of an earlier period (the raw dts skip one) and
\* a later update appended and trimmed the series to max_raw_len
C3_Witness ==
    /\ call.op = "update" /\ raised = ""
    /\ Len(kline_raw) = max_raw_len
    /\ kline_raw[1].dt > 1
    /\ \E i \in 1..(Len(kline_raw) - 1) : kline_raw[i + 1].dt > kline_raw[i].dt + 1
    /\ kline_raw[Len(kline_raw)].dt = kline_raw[Len(kline_raw) - 1].dt + 1

(* C4: after construction and after every update no two adjacent merged    *)
(* bars are in containment.                                                *)
C4_NoContainment ==
    Completed =>
      \A i \in 1..(Len(kline_new) - 1) :
        LET a == kline_new[i]
            b == kline_new[i + 1]
        IN  /\ ~(a.high <= b.high /\ a.low >= b.low)
            /\ ~(a.high >= b.high /\ a.low <= b.low)

(* C5: after construction and after every update no two adjacent strokes *)
(* have the same mark and no two adjacent segments have the same mark.     *)
C5_MarksAlternate ==
    Completed =>
      /\ \A i \in 1..(Len(bi_list) - 1) : bi_list[i].fx_mark # bi_list[i + 1].fx_mark
      /\ \A i \in 1..(Len(xd_list) - 1) : xd_list[i].fx_mark # xd_list[i + 1].fx_mark

\* an update left at least six strokes and at least four segments
C5_Witness ==
    /\ call.op = "update" /\ raised = ""
    /\ Len(bi_list) >= 6
    /\ Len(xd_list) >= 4

(* C6: after construction and after every update, between every two        *)
(* adjacent strokes (both ends included) the merged series holds at least  *)
(* min_bi_k bars.                                                          *)
C6_StrokeLength ==
    Completed =>
      \A i \in 1..(Len(bi_list) - 1) :
        KnBetween(bi_list[i].dt, bi_list[i + 1].dt) >= min_bi_k

(* C7: after construction and after every update adjacent strokes do not   *)
(* overlap: a bottom after a top has fx_high below the top's fx_low, a top *)
(* after a bottom has fx_low above the bottom's fx_high.                   *)
C7_StrokeNoOverlap ==
    Completed =>
      \A i \in 1..(Len(bi_list) - 1) :
        LET prev == bi_list[i]
            cur == bi_list[i + 1]
        IN  /\ (prev.fx_mark = "g" /\ cur.fx_mark = "d") => cur.fx_high < prev.fx_low
            /\ (prev.fx_mark = "d" /\ cur.fx_mark = "g") => cur.fx_low > prev.fx_high

(* C8: after construction and after every update at least 4 strokes have   *)
(* dt in (prev.dt, cur.dt] for every two adjacent segment endpoints.       *)
C8_SegmentSpacing ==
    Completed =>
      \A i \in 1..(Len(xd_list) - 1) :
        BiBetween(xd_list[i].dt, xd_list[i + 1].dt) >= 4

(* C9: every pivot that find_zs returns for a mark-alternating list of     *)
(* points in dt order has ZG > ZD, and the price of each of its member     *)
(* points lies within [DD, GG].                                            *)
C9_PivotValid ==
    call.op = "find_zs" =>
      \A i \in 1..Len(zs_out) :
        LET zs == zs_out[i]
        IN  /\ zs.ZG > zs.ZD
            /\ \A j \in 1..Len(zs.points) :
                 zs.DD <= zs.points[j].xd /\ zs.points[j].xd <= zs.GG

\* is_bei_chi on the arguments of the last call with another adjust
BcWith(adjust) ==
    is_bei_chi(bc_in.df, bc_in.zs1, bc_in.zs2, bc_in.mode, adjust)

(* C10 as stated: when is_bei_chi returns true for adjust a it returns     *)
(* true, on the same frame, legs and mode, for every smaller adjust.       *)
C10_SmallerAdjust ==
    (call.op = "is_bei_chi" /\ bc_out.exc = "" /\ bc_out.bc) =>
      \A a \in Adjusts : a < bc_in.adjust => BcWith(a).bc

(* C10 amended: when is_bei_chi returns true for adjust a it returns true, *)
(* on the same frame, legs and mode, for every larger adjust.              *)
C10_LargerAdjust ==
    (call.op = "is_bei_chi" /\ bc_out.exc = "" /\ bc_out.bc) =>
      \A a \in Adjusts : a > bc_in.adjust => BcWith(a).exc = "" /\ BcWith(a).bc

\* is_bei_chi returned true for the default adjust 0.9, where it returns
\* false for 0.6 on the same arguments
C10_Witness ==
    /\ call.op = "is_bei_chi" /\ bc_out.exc = "" /\ bc_out.bc
    /\ bc_in.adjust = 9
    /\ ~BcWith(6).bc

\* |macd| of row i when the row lies in the leg and its sign counts for the
\* leg: every row in stroke mode, the rows on the leg's side in segment mode
Strength(row, zs, mode) ==
    IF row.dt < zs.start_dt \/ row.dt > zs.end_dt THEN 0
    ELSE IF mode = "bi" THEN (IF row.macd < 0 THEN 0 - row.macd ELSE row.macd)
    ELSE IF zs.direction = "down" THEN (IF row.macd < 0 THEN 0 - row.macd ELSE 0)
    ELSE (IF row.macd > 0 THEN row.macd ELSE 0)

\* S(zs): the strengths of the first n rows added up
RECURSIVE S(_, _, _, _)
S(df, n, zs, mode) ==
    IF n = 0 THEN 0 ELSE S(df, n - 1, zs, mode) + Strength(df[n], zs, mode)

(* C11: a call of is_bei_chi that returns, returns true exactly when       *)
(* S(zs1) < adjust * S(zs2), S adding |macd| over the rows of the leg: all *)
(* of them in mode 'bi', whatever the direction fields are, and in mode    *)
(* 'xd' those with negative macd for a leg going down and those with       *)
(* positive macd for a leg going up, each leg by its own direction.        *)
C11_DivergenceRule ==
    (call.op = "is_bei_chi" /\ bc_out.exc = "") =>
      (bc_out.bc <=>
         10 * S(bc_in.df, Len(bc_in.df), bc_in.zs1, bc_in.mode)
           < bc_in.adjust * S(bc_in.df, Len(bc_in.df), bc_in.zs2, bc_in.mode))

\* a segment-mode call on legs of opposite directions returned true where
\* the stroke-mode call on the same arguments returns false
C11_Witness ==
    /\ call.op = "is_bei_chi" /\ bc_out.exc = "" /\ bc_out.bc
    /\ bc_in.mode = "xd"
    /\ bc_in.zs1.direction # bc_in.zs2.direction
    /\ ~is_bei_chi(bc_in.df, bc_in.zs1, bc_in.zs2, "bi", bc_in.adjust).bc

(* C12: an analyzer that holds fewer than 4 raw bars, after construction   *)
(* from 1, 2 or 3 bars or after an update, has not raised and has empty    *)
(* fractal, stroke and segment series.                                     *)
C12_ShortageIsNoError ==
    (feed # "none" /\ Len(kline_raw) < 4) =>
      /\ raised = ""
      /\ fx_list = << >> /\ bi_list = << >> /\ xd_list = << >>

(* C13: on an analyzer constructed from at least 4 raw bars, every update  *)
(* with a bar whose dt is not before the last raw bar's runs to completion *)
(* without raising.                                                        *)
C13_UpdateCompletes ==
    call.op = "update" => raised = ""

(* C14: update with a bar dated before the last raw bar raises, and leaves *)
(* the raw, merged, fractal, stroke and segment sequences as they were.    *)
C14_OutOfOrderRejected ==
    [][ (call'.op = "update" /\ call'.k.dt < kline_raw[Len(kline_raw)].dt) =>
          /\ raised' # ""
          /\ UNCHANGED <<kline_raw, kline_new, fx_list, bi_list, xd_list>> ]_vars

(* C15: find_zs is read-only: a call leaves the records of the list it is  *)
(* given exactly as they were, with the same fields and values.            *)
C15_InputUntouched ==
    [][ call'.op = "find_zs" => zs_points' = zs_points ]_vars

(* C16: after every update that completes and in which the raw series      *)
(* exceeded max_raw_len before the trim, the raw series holds exactly       *)
(* max_raw_len bars, the merged series at most max_raw_len, the fractal     *)
(* series at most max_raw_len div 2, the stroke series at most              *)
(* max_raw_len div 4 and the segment series at most max_raw_len div 8.      *)
C16_Retention ==
    [][ ( /\ call'.op = "update"
          /\ raised' = ""
          /\ Len(RawAfter(kline_raw, call'.k)) > max_raw_len ) =>
          /\ Len(kline_raw') = max_raw_len
          /\ Len(kline_new') <= max_raw_len
          /\ Len(fx_list') <= max_raw_len \div 2
          /\ Len(bi_list') <= max_raw_len \div 4
          /\ Len(xd_list') <= max_raw_len \div 8 ]_vars

(* C17: the merger's loop body, given the merged series and the bar cur,   *)
(* with last the final merged bar: when cur and last are in containment    *)
(* it replaces last by a bar of cur's dt whose high and low are the        *)
(* maxima of the two bars' when last.high is above the high before it and   *)
(* the minima otherwise, with open/close = (high, low) if cur.open >=       *)
(* cur.close and (low, high) otherwise, keeping the length; when they are   *)
(* not in containment it appends cur unchanged.                             *)
C17_MergeStep ==
    call.op = "merge" =>
      LET merged == mg_in.kline_new
          n == Len(merged)
          cur == mg_in.k
          last == merged[n]
          up == merged[n].high > merged[n - 1].high
          covers == \/ (cur.high <= last.high /\ cur.low >= last.low)
                    \/ (cur.high >= last.high /\ cur.low <= last.low)
          high == IF up THEN Max2(last.high, cur.high) ELSE Min2(last.high, cur.high)
          low == IF up THEN Max2(last.low, cur.low) ELSE Min2(last.low, cur.low)
      IN  IF covers
          THEN /\ Len(mg_out) = n
               /\ SubSeq(mg_out, 1, n - 1) = SubSeq(merged, 1, n - 1)
               /\ mg_out[n].dt = cur.dt
               /\ mg_out[n].high = high /\ mg_out[n].low = low
               /\ << mg_out[n].open, mg_out[n].close >> =
                    (IF cur.open >= cur.close THEN << high, low >> ELSE << low, high >>)
          ELSE mg_out = Append(merged, cur)

\* a falling bar is merged into the last bar of a falling pair
C17_Witness ==
    /\ call.op = "merge"
    /\ Len(mg_out) = 2
    /\ mg_in.kline_new[2].high < mg_in.kline_new[1].high
    /\ mg_in.k.open >= mg_in.k.close
    /\ mg_out[2].dt = mg_in.k.dt
    /\ mg_out[2].low < mg_in.k.low
    /\ mg_out[2].open = mg_out[2].high

(* C18: every fractal of the fractal series whose bar k2 is held in the    *)
(* merged series between neighbours k1 and k3: a top has k1.high < k2.high > *)
(* k3.high, price = high = k2.high and low = max(k1.low, k3.low); a bottom *)
(* has k1.low > k2.low < k3.low, price = low = k2.low and                  *)
(* high = min(k1.high, k3.high).                                           *)
C18_FractalShape ==
    (feed # "none" /\ raised = "") =>
      \A j \in 1..Len(fx_list) :
        \A i \in 2..(Len(kline_new) - 1) :
          LET f == fx_list[j]
              k1 == kline_new[i - 1]
              k2 == kline_new[i]
              k3 == kline_new[i + 1]
          IN  f.dt = k2.dt =>
              /\ \/ /\ f.fx_mark = "g"
                    /\ k1.high < k2.high /\ k2.high > k3.high
                    /\ f.fx = k2.high /\ f.fx_high = k2.high
                    /\ f.fx_low = Max2(k1.low, k3.low)
                 \/ /\ f.fx_mark = "d"
                    /\ k1.low > k2.low /\ k2.low < k3.low
                    /\ f.fx = k2.low /\ f.fx_low = k2.low
                    /\ f.fx_high = Min2(k1.high, k3.high)

(* C19: an analyzer that holds at least 4 raw bars of an ascending         *)
(* staircase (high and low each strictly above the bar before), built by   *)
(* the constructor and continued by update, has not raised, its merged     *)
(* series equals the raw series bar for bar in dt, high and low, and its   *)
(* fractal, stroke and segment series are empty; the constructor given the *)
(* whole raw series at once builds the same analyzer.                      *)
C19_Staircase ==
    (feed = "stairs" /\ Len(kline_raw) >= 4) =>
      /\ raised = ""
      /\ Len(kline_new) = Len(kline_raw)
      /\ \A i \in 1..Len(kline_raw) :
           /\ kline_new[i].dt = kline_raw[i].dt
           /\ kline_new[i].high = kline_raw[i].high
           /\ kline_new[i].low = kline_raw[i].low
      /\ fx_list = << >> /\ bi_list = << >> /\ xd_list = << >>
      /\ Rebuilt(kline_raw) = [Self EXCEPT !.kn = kline_raw] @@ [exc |-> ""]

\* two updates have continued a staircase of four bars
C19_Witness ==
    /\ feed = "stairs" /\ call.op = "update"
    /\ Len(kline_raw) >= 6
    /\ kline_raw[6].open > kline_raw[6].close

\* the greatest and the least of a finite nonempty set of prices
SetMax(prices) == CHOOSE x \in prices : \A y \in prices : y <= x
SetMin(prices) == CHOOSE x \in prices : \A y \in prices : x <= y

\* the prices of the points of mark m among the first four of pts
FirstFour(pts, m) == { pts[i].bi : i \in { j \in 1..4 : pts[j].fx_mark = m } }

\* the point p leaves the zone [zd, zg]: a bottom above it or a top below it
Leaves(p, zd, zg) ==
    \/ (p.fx_mark = "d" /\ p.bi > zg)
    \/ (p.fx_mark = "g" /\ p.bi < zd)

(* C20: find_zs returns no pivot for fewer than 5 points.  For 5 or more   *)
(* points whose first four give ZD = max of the bottoms and ZG = min of    *)
(* the tops with ZG > ZD: if no point from the sixth on is a bottom above   *)
(* ZG or a top below ZD, the result is one trailing pivot holding all the   *)
(* points, without third_buy and third_sell; otherwise, with p the first    *)
(* such point, the first pivot holds the points before p, has third_buy = p *)
(* iff p is a bottom and third_sell = p iff p is a top, and the pivots      *)
(* after it are those of the list that starts at the point before p.  The   *)
(* endpoints d10, g12, d11, g13, d12, g15 give one pivot with ZD = 11,      *)
(* ZG = 12 and no third_buy.                                                *)
C20_PivotRule ==
    call.op = "find_zs" =>
      LET pts == zs_points
          n == Len(pts)
          zd == SetMax(FirstFour(pts, "d"))
          zg == SetMin(FirstFour(pts, "g"))
          hits == { j \in 6..n : Leaves(pts[j], zd, zg) }
          j == SetMin(hits)
      IN  /\ n < 5 => zs_out = << >>
          /\ (n >= 5 /\ zg > zd /\ hits = {}) =>
                /\ Len(zs_out) = 1
                /\ zs_out[1].points = pts
                /\ zs_out[1].ZD = zd /\ zs_out[1].ZG = zg
                /\ zs_out[1].third_buy = << >> /\ zs_out[1].third_sell = << >>
          /\ (n >= 5 /\ zg > zd /\ hits # {}) =>
                /\ Len(zs_out) >= 1
                /\ zs_out[1].points = SubSeq(pts, 1, j - 1)
                /\ zs_out[1].ZD = zd /\ zs_out[1].ZG = zg
                /\ zs_out[1].third_buy = (IF pts[j].fx_mark = "d" THEN << pts[j] >> ELSE << >>)
                /\ zs_out[1].third_sell = (IF pts[j].fx_mark = "g" THEN << pts[j] >> ELSE << >>)
                /\ Tail(zs_out) = (IF n - j + 2 < 5 THEN << >>
                                   ELSE find_zs(SubSeq(pts, j - 1, n)))
          /\ (\A i \in 1..n : pts[i].bi = SixEndpoints[i].bi /\ n = 6) =>
                /\ Len(zs_out) = 1
                /\ zs_out[1].ZD = 11 /\ zs_out[1].ZG = 12
                /\ zs_out[1].third_buy = << >>

\* a top below the zone ends the first pivot and a second pivot follows
C20_Witness ==
    /\ call.op = "find_zs"
    /\ Len(zs_out) = 2
    /\ zs_out[1].third_sell # << >>
    /\ Len(zs_out[1].points) = 5
    /\ zs_out[2].points[1] = zs_out[1].points[5]

\* the stroke list that the loop of lines 354-372 holds after the first i of
\* the fractals right_fx
BiAfter(bi, right_fx, right_kn, mk, i) ==
    BiLoop(bi, SubSeq(right_fx, 1, i), right_kn, mk, 1)

\* the number of bars of kn with dt in [lo, hi]
BarsBetween(kn, lo, hi) ==
    Cardinality({ j \in 1..Len(kn) : lo <= kn[j].dt /\ kn[j].dt <= hi })

\* the stroke rule for the i-th fractal fx after the stroke list bi: a
\* fractal of the mark opposite to the last stroke's is appended iff at
\* least mk merged bars lie in [last.dt, fx.dt] and it does not overlap the
\* last stroke; otherwise the list stays as it is
BiRuleAt(kn, bi, right_fx, right_kn, mk, i) ==
    LET before == BiAfter(bi, right_fx, right_kn, mk, i - 1)
        after == BiAfter(bi, right_fx, right_kn, mk, i)
        last == before[Len(before)]
        fx == right_fx[i]
        apart == IF last.fx_mark = "g" THEN fx.fx_high < last.fx_low
                                       ELSE fx.fx_low > last.fx_high
    IN  fx.fx_mark # last.fx_mark =>
          IF BarsBetween(kn, last.dt, fx.dt) >= mk /\ apart
          THEN /\ Len(after) = Len(before) + 1
               /\ SubSeq(after, 1, Len(before)) = before
               /\ after[Len(after)].dt = fx.dt
               /\ after[Len(after)].fx_mark = fx.fx_mark
               /\ after[Len(after)].bi = fx.fx
          ELSE after = before

\* the rule at every fractal that the loop processes from the list bi, and
\* the list [F1] left when F1 is followed by one fractal only, of the
\* opposite mark and fewer than mk merged bars away
BiRule(kn, fx, bi, mk) ==
    /\ \A i \in 1..Len(BiRightFx(fx, bi)) :
         BiRuleAt(kn, bi, BiRightFx(fx, bi), BiRightKn(kn, bi), mk, i)
    /\ ( /\ Len(fx) = 2 /\ Len(bi) = 1 /\ bi[1].dt = fx[1].dt
         /\ fx[2].fx_mark # fx[1].fx_mark
         /\ BarsBetween(kn, fx[1].dt, fx[2].dt) < mk ) =>
         BiLoop(bi, BiRightFx(fx, bi), BiRightKn(kn, bi), mk, 1) = << FxToBi(fx[1]) >>

\* the fractal series is F1 and one fractal of the opposite mark that is
\* fewer than min_bi_k merged bars away
OnlyShortOpposite ==
    /\ feed # "none" /\ raised = ""
    /\ Len(fx_list) = 2
    /\ fx_list[2].fx_mark # fx_list[1].fx_mark
    /\ KnBetween(fx_list[1].dt, fx_list[2].dt) < min_bi_k

(* C21 as stated: when the only fractal after the first fractal F1 is of   *)
(* the opposite mark and has fewer than min_bi_k merged bars in            *)
(* [F1.dt, fx.dt], the stroke series is exactly [F1].                      *)
C21_ExactlyF1 ==
    OnlyShortOpposite => bi_list = << FxToBi(fx_list[1]) >>

(* C21 amended: the stroke loop appends a fractal of the mark opposite to  *)
(* the last stroke's iff at least min_bi_k merged bars have dt in          *)
(* [last.dt, fx.dt] and the fractal does not overlap the last stroke, and  *)
(* otherwise leaves the stroke list as it is; when the only fractal after  *)
(* F1 is an opposite one fewer than min_bi_k merged bars away, the stroke  *)
(* series is exactly [F1] unless the last merged bar breaks F1, and then   *)
(* it is empty.                                                            *)
C21_StrokeAppendRule ==
    /\ [][ ( /\ call'.op = "update"
             /\ raised' = ""
             /\ Len(RawAfter(kline_raw, call'.k)) <= max_raw_len
             /\ Len(fx_list') >= 2 ) =>
             BiRule(kline_new', fx_list', DropLast(BiSeeded(fx_list', bi_list), 1),
                    min_bi_k) ]_vars
    /\ [](OnlyShortOpposite =>
            bi_list = (IF BiTailBroken(FxToBi(fx_list[1]), kline_new[Len(kline_new)])
                       THEN << >> ELSE << FxToBi(fx_list[1]) >>))

\* the last merged bar has broken F1 and no stroke is left
C21_Witness ==
    /\ call.op = "update" /\ OnlyShortOpposite
    /\ BiTailBroken(FxToBi(fx_list[1]), kline_new[Len(kline_new)])
    /\ bi_list = << >>

(* C22: after construction and after every update, when the stroke series  *)
(* is not empty, no merged bar later than its last stroke has a low below  *)
(* the price of a last stroke that is a bottom, or a high above the price  *)
(* of a last stroke that is a top.                                         *)
C22_StrokeTailValid ==
    (feed # "none" /\ raised = "" /\ bi_list # << >>) =>
      LET last == bi_list[Len(bi_list)]
      IN  \A i \in 1..Len(kline_new) :
            kline_new[i].dt > last.dt =>
              /\ last.fx_mark = "d" => kline_new[i].low >= last.bi
              /\ last.fx_mark = "g" => kline_new[i].high <= last.bi

(* C23: after construction and after every update, when the segment series *)
(* is not empty, no merged bar later than its last endpoint has a low      *)
(* below the price of a last endpoint that is a bottom, or a high above    *)
(* the price of a last endpoint that is a top.                             *)
C23_SegmentTailValid ==
    (feed # "none" /\ raised = "" /\ xd_list # << >>) =>
      LET last == xd_list[Len(xd_list)]
      IN  \A i \in 1..Len(kline_new) :
            kline_new[i].dt > last.dt =>
              /\ last.fx_mark = "d" => kline_new[i].low >= last.xd
              /\ last.fx_mark = "g" => kline_new[i].high <= last.xd

\* the strokes of mark m among right_bi
OfMark(right_bi, m) ==
    LET Is(b) == b.fx_mark = m IN SelectSeq(right_bi, Is)

\* the i-th stroke of the one-mark list same lies beyond both its neighbours
\* of that mark: below them for bottoms, above them for tops
Turns(same, m, i) ==
    IF m = "d" THEN same[i - 1].bi > same[i].bi /\ same[i].bi < same[i + 1].bi
               ELSE same[i - 1].bi < same[i].bi /\ same[i].bi > same[i + 1].bi

\* every turning stroke of right_bi, the one before the last stroke of its
\* mark included, is among the candidates xd_p, which are in dt order
CandidatesComplete(right_bi, xd_p) ==
    /\ \A m \in {"d", "g"} :
         \A i \in 2..(Len(OfMark(right_bi, m)) - 1) :
           Turns(OfMark(right_bi, m), m, i) =>
             \E j \in 1..Len(xd_p) : xd_p[j] = OfMark(right_bi, m)[i]
    /\ \A j \in 1..(Len(xd_p) - 1) : xd_p[j].dt < xd_p[j + 1].dt

\* the strokes that the segment builder scans when the stroke series is bi
\* and the segment series was xd0 (lines 429-439)
ScannedBi(bi, xd0) == XdRightBi(bi, XdSeeded(bi, DropLast(xd0, 2)))

(* C24: in every update that completes without a retention trim and runs   *)
(* the segment builder, every bottom stroke lower than the bottom strokes   *)
(* before and after it, and every top stroke higher than the top strokes    *)
(* before and after it, among the strokes from the last retained segment    *)
(* endpoint on, is a candidate, the triple that ends at the last stroke of  *)
(* the mark included, and the candidates are in ascending dt order.         *)
C24_CandidatesComplete ==
    [][ ( /\ call'.op = "update"
          /\ raised' = ""
          /\ Len(RawAfter(kline_raw, call'.k)) <= max_raw_len
          /\ Len(bi_list') >= 4 ) =>
          CandidatesComplete(ScannedBi(bi_list', xd_list),
                             XdPoints(ScannedBi(bi_list', xd_list))) ]_vars

\* the segment list that the loop of lines 453-489 holds after the first i
\* of the candidates xd_p
XdAfter(xd, xd_p, right_bi, i) == XdLoop(xd, SubSeq(xd_p, 1, i), right_bi, 1).xd

\* the number of strokes of bi with dt in (lo, hi]
StrokesWithin(bi, lo, hi) ==
    Cardinality({ j \in 1..Len(bi) : lo < bi[j].dt /\ bi[j].dt <= hi })

\* the spacing rule at the i-th candidate: of a candidate of the mark
\* opposite to the last segment endpoint's, with n strokes in
\* (last.dt, xp.dt], the list is left alone when n < 4 and gains the
\* candidate when n > 4
XdSpacingAt(bi, xd, xd_p, right_bi, i) ==
    LET before == XdAfter(xd, xd_p, right_bi, i - 1)
        after == XdAfter(xd, xd_p, right_bi, i)
        last == before[Len(before)]
        xp == xd_p[i]
        n == StrokesWithin(bi, last.dt, xp.dt)
    IN  xp.fx_mark # last.fx_mark =>
          /\ n < 4 => after = before
          /\ n > 4 => after = Append(before, BiToXd(xp))

XdSpacing(bi, xd, right_bi) ==
    \A i \in 1..Len(XdPoints(right_bi)) :
      XdSpacingAt(bi, xd, XdPoints(right_bi), right_bi, i)

(* C25: in every update that completes without a retention trim and runs   *)
(* the segment builder, a candidate xp of the mark opposite to the last    *)
(* segment endpoint's, with n the number of strokes with dt in             *)
(* (last_segment.dt, xp.dt], is skipped when n < 4 and appended when       *)
(* n > 4.                                                                  *)
C25_SegmentSpacingRule ==
    [][ ( /\ call'.op = "update"
          /\ raised' = ""
          /\ Len(RawAfter(kline_raw, call'.k)) <= max_raw_len
          /\ Len(bi_list') >= 4 ) =>
          XdSpacing(bi_list', XdSeeded(bi_list', DropLast(xd_list, 2)),
                    ScannedBi(bi_list', xd_list)) ]_vars

(* C26: after construction and after every update every segment endpoint   *)
(* coincides with a stroke endpoint: the stroke series holds an element    *)
(* with the same dt, mark and price.                                       *)
C26_SegmentOnStroke ==
    (feed # "none" /\ raised = "") =>
      \A i \in 1..Len(xd_list) :
        \E j \in 1..Len(bi_list) :
          /\ bi_list[j].dt = xd_list[i].dt
          /\ bi_list[j].fx_mark = xd_list[i].fx_mark
          /\ bi_list[j].bi = xd_list[i].xd

\* the strokes of right_bi with dt in [lo, hi], and those with dt from lo on
BiInside(right_bi, lo, hi) ==
    LET In(b) == lo <= b.dt /\ b.dt <= hi IN SelectSeq(right_bi, In)

BiFromOn(right_bi, lo) ==
    LET On(b) == b.dt >= lo IN SelectSeq(right_bi, On)

\* the i-th candidate is of the mark opposite to the last segment
\* endpoint's and exactly 4 strokes are counted for it (lines 463-474)
TwoCaseAt(xd, xd_p, right_bi, i) ==
    LET before == XdAfter(xd, xd_p, right_bi, i - 1)
    IN  /\ xd_p[i].fx_mark # before[Len(before)].fx_mark
        /\ Len(BiInside(right_bi, before[Len(before)].dt, xd_p[i].dt)) = 4

\* the check of lines 475-476 passes at the i-th candidate
TwoCaseChecked(xd, xd_p, right_bi, i) ==
    LET before == XdAfter(xd, xd_p, right_bi, i - 1)
        bi_inside == BiInside(right_bi, before[Len(before)].dt, xd_p[i].dt)
        bi_r == BiFromOn(right_bi, xd_p[i].dt)
    IN  /\ Len(bi_r) >= 2
        /\ bi_r[2].fx_mark = bi_inside[3].fx_mark

TwoCaseSafe(xd, right_bi) ==
    \A i \in 1..Len(XdPoints(right_bi)) :
      TwoCaseAt(xd, XdPoints(right_bi), right_bi, i) =>
        TwoCaseChecked(xd, XdPoints(right_bi), right_bi, i)

\* the update ran the segment builder on the stroke series it left, and no
\* retention trim followed
RanSegmentBuilder ==
    /\ call'.op = "update"
    /\ raised' \in {"", "AssertionError", "IndexError"}
    /\ Len(RawAfter(kline_raw, call'.k)) <= max_raw_len
    /\ Len(bi_list') >= 4

(* C27: the check of the two-case rule never fails: no construction and no *)
(* update ends in an AssertionError, and whenever the segment builder      *)
(* counts exactly 4 strokes for a candidate of the mark opposite to the    *)
(* last segment endpoint's, a stroke after the candidate exists and its    *)
(* mark is that of the second-to-last counted stroke.                      *)
C27_TwoCaseCheckHolds ==
    /\ [](raised # "AssertionError")
    /\ [][ RanSegmentBuilder =>
             TwoCaseSafe(XdSeeded(bi_list', DropLast(xd_list, 2)),
                         ScannedBi(bi_list', xd_list)) ]_vars

\* the last segment endpoint was appended with exactly 4 strokes counted
C27_Witness ==
    /\ call.op = "update" /\ raised = ""
    /\ Len(xd_list) >= 2
    /\ xd_list[Len(xd_list)].fx_mark # xd_list[Len(xd_list) - 1].fx_mark
    /\ Len(BiInside(bi_list, xd_list[Len(xd_list) - 1].dt, xd_list[Len(xd_list)].dt)) = 4
    /\ Len(BiFromOn(bi_list, xd_list[Len(xd_list)].dt)) >= 3

\* the i-th candidate, when the two-case rule applies to it, is appended
TwoCaseAppends(xd, xd_p, right_bi, i) ==
    XdAfter(xd, xd_p, right_bi, i) =
      Append(XdAfter(xd, xd_p, right_bi, i - 1), BiToXd(xd_p[i]))

\* the second and third of the 4 strokes counted for the i-th candidate
\* (bi_inside[-3] and bi_inside[-2]) are a bottom and a top, either way
\* round, with the bottom's price below the top's
TwoCasePair(xd, xd_p, right_bi, i) ==
    LET before == XdAfter(xd, xd_p, right_bi, i - 1)
        bi_inside == BiInside(right_bi, before[Len(before)].dt, xd_p[i].dt)
        third == bi_inside[2]
        second == bi_inside[3]
    IN  \/ third.fx_mark = "d" /\ second.fx_mark = "g" /\ third.bi < second.bi
        \/ third.fx_mark = "g" /\ second.fx_mark = "d" /\ second.bi < third.bi

TwoCaseAccepts(xd, right_bi) ==
    \A i \in 1..Len(XdPoints(right_bi)) :
      TwoCaseAt(xd, XdPoints(right_bi), right_bi, i) =>
        /\ TwoCaseAppends(xd, XdPoints(right_bi), right_bi, i)
        /\ TwoCasePair(xd, XdPoints(right_bi), right_bi, i)

Overlaps(p, zd, zg) ==
    /\ p.fx_mark = "d" => p.xd <= zg
    /\ p.fx_mark = "g" => p.xd >= zd

(* C29: in every pivot that find_zs returns, every member point overlaps   *)
(* the zone: the price of every member bottom is at most ZG and the price  *)
(* of every member top is at least ZD.                                     *)
C29_MembersOverlapZone ==
    call.op = "find_zs" =>
      \A j \in 1..Len(zs_out) :
        \A i \in 1..Len(zs_out[j].points) :
          Overlaps(zs_out[j].points[i], zs_out[j].ZD, zs_out[j].ZG)

\* the stroke at index i of the series before is at index i of the series
\* after, with its dt, mark and price
SameStroke(before, after, i) ==
    /\ i <= Len(after)
    /\ after[i].dt = before[i].dt
    /\ after[i].fx_mark = before[i].fx_mark
    /\ after[i].bi = before[i].bi

(* C30: in every update that completes without a retention trim, every     *)
(* stroke of the series before the update other than its last is in the    *)
(* series after the update at the same index with the same dt, mark and    *)
(* price.                                                                  *)
C30_StrokePrefixStable ==
    [][ ( /\ call'.op = "update"
          /\ raised' = ""
          /\ Len(RawAfter(kline_raw, call'.k)) <= max_raw_len ) =>
          \A i \in 1..(Len(bi_list) - 1) : SameStroke(bi_list, bi_list', i) ]_vars

(* C31: every order that update_traders hands to the broker through        *)
(* send_stock_order has a volume that is a positive multiple of 100; no    *)
(* order of volume 0 reaches the broker.                                   *)
C31_OrdersAreWholeLots ==
    \A i \in 1..Len(orders) :
      /\ orders[i].order_volume > 0
      /\ orders[i].order_volume % 100 = 0

====
